---- MODULE Spec2Model ----
(***************************************************************************)
(* A model of the genetic-algorithm engine of src/gaexperiment.py          *)
(* (class GAExperiment) together with the fitness function and individual  *)
(* factory of src/exp_sum_digits.py.                                       *)
(*                                                                         *)
(* A genome (a Python str over '0'/'1') is a sequence over {0, 1}; an      *)
(* individual is the tuple <<bits, score>>.  A value of random.random()    *)
(* is the rational k / DrawDen with k \in Draws, so that every comparison  *)
(* the code makes with a draw is made here on cross-multiplied integers.   *)
(***************************************************************************)
EXTENDS Integers, Sequences, FiniteSets, TLC

\* ------------------------------------------------------------------ bounds
MaxPop == 3            \* population_size ranges over 0 .. MaxPop
MaxGen == 2            \* max_generations ranges over 0 .. MaxGen
NumDigits == 2         \* num_digits of the experiment whose methods are called
DrawHalf == 2          \* a draw is k / (2 * DrawHalf), k \in 0 .. 2*DrawHalf - 1

DrawDen == 2 * DrawHalf
Draws == 0 .. (DrawDen - 1)

\* ------------------------------------------------------- values of the code
\* An optional value (None or a value) is a sequence of length <= 1.
None == <<>>
Some(x) == <<x>>
NegInf == -1           \* stands for -inf: every fitness score is >= 0

Genomes(len) == [1 .. len -> {0, 1}]

RECURSIVE Count1(_)
Count1(bits) ==
    IF bits = <<>> THEN 0
    ELSE (IF Head(bits) = 1 THEN 1 ELSE 0) + Count1(Tail(bits))

\* Experiment.fitness of exp_sum_digits.py
Fitness(num_digits, bits) ==
    LET score == Count1(bits)
    IN IF score = 0 THEN num_digits + 1 ELSE score

Individuals(num_digits) ==
    {<<g, Fitness(num_digits, g)>> : g \in Genomes(num_digits)}

\* list.sort(key=lambda x: x[1], reverse=True): a stable sort, descending
RECURSIVE InsertDesc(_, _)
InsertDesc(x, sorted) ==
    IF sorted = <<>> THEN <<x>>
    ELSE IF Head(sorted)[2] >= x[2]
         THEN <<Head(sorted)>> \o InsertDesc(x, Tail(sorted))
         ELSE <<x>> \o sorted

\* the sort left out
NoSort(s) == s

RECURSIVE SortDesc(_)
SortDesc(s) ==
    IF s = <<>> THEN <<>>
    ELSE InsertDesc(s[Len(s)], SortDesc(SubSeq(s, 1, Len(s) - 1)))

\* random.shuffle: every ordering of the list
RECURSIVE Shuffles(_)
Shuffles(s) ==
    IF s = <<>> THEN {<<>>}
    ELSE UNION {{<<s[i]>> \o t :
                    t \in Shuffles(SubSeq(s, 1, i - 1) \o SubSeq(s, i + 1, Len(s)))} :
                i \in 1 .. Len(s)}

\* math.ceil(population_size / 2)
CeilHalf(n) == (n + 1) \div 2

\* 0.5 for 0.6
NumMutationsHalf(n) == (5 * n) \div 10

\* math.floor(0.1 * n) and math.floor(0.6 * n)
NumNoop(n) == n \div 10
NumMutations(n) == (6 * n) \div 10

\* ------------------------------------------------------------------- state
VARIABLES
    pc,                 \* where the caller of the engine is
    attrs,              \* the attributes GAExperiment.__init__ has set on self
    error,              \* the exception that left __init__, or None
    init_calls,         \* calls __init__ made to make_individual and fitness
    num_digits,         \* Experiment.num_digits
    population_size, max_generations, target_fitness,
    population, generation, mutate_probability, most_fit, most_fit_score,
    pool, pool_ix,      \* run(): the pool and the ranks sample_population kept
    parents,            \* run(): the pairs match_parents returned
    leaders,            \* score of population[0] of every population held
    op,                 \* the method called directly on the engine, or "idle"
    op_args,            \* its arguments and the draws made for it
    op_status,          \* "running", "returned" or "raised"
    op_result,          \* what it returned, or the exception it raised
    op_l                \* match_parents: its local list l

engine_vars == <<pc, attrs, error, init_calls, num_digits, population_size,
                 max_generations, target_fitness, population, generation,
                 mutate_probability, most_fit, most_fit_score, pool, pool_ix,
                 parents, leaders>>

op_vars == <<op, op_args, op_status, op_result, op_l>>

vars == <<engine_vars, op_vars>>

AllAttrs == {"population_size", "max_generations", "target_fitness",
             "population", "generation", "mutate_probability", "most_fit",
             "most_fit_score"}

\* ------------------------------------------------------ sample_population
\* the ranks counted from 1: (n - (ix + 1))/n > r[ix]
RECURSIVE SampleRanksOneBased(_, _, _)
SampleRanksOneBased(n, r, ix) ==
    IF ix >= n THEN <<>>
    ELSE (IF (n - ix - 1) * DrawDen > r[ix + 1] * n THEN <<ix>> ELSE <<>>)
         \o SampleRanksOneBased(n, r, ix + 1)

\* the ranks ix (0-based) with (n - ix)/n > r[ix], in increasing order
RECURSIVE SampleRanks(_, _, _)
SampleRanks(n, r, ix) ==
    IF ix >= n THEN <<>>
    ELSE (IF (n - ix) * DrawDen > r[ix + 1] * n THEN <<ix>> ELSE <<>>)
         \o SampleRanks(n, r, ix + 1)

SamplePopulation(pop, r) ==
    LET ranks == SampleRanks(Len(pop), r, 0)
    IN [j \in 1 .. Len(ranks) |-> pop[ranks[j] + 1]]

\* ----------------------------------------------------------- match_parents
\* one pass of the while loop's body: l + (a shuffled copy of the pool)
MatchStep(l, p) == {l \o s : s \in Shuffles(p)}

\* the lists l the while loop can end with; with an empty pool a pass leaves
\* l as it is, the test never fails and the loop ends with no list at all
RECURSIVE MatchFill(_, _, _)
MatchFill(l, p, num_needed) ==
    IF Len(l) < 2 * num_needed
    THEN IF p = <<>> THEN {}
         ELSE UNION {MatchFill(l2, p, num_needed) : l2 \in MatchStep(l, p)}
    ELSE {l}

MatchPairs(l, num_needed) ==
    [ix \in 1 .. num_needed |-> <<l[2 * ix - 1], l[2 * ix]>>]

MatchParents(p, num_needed) ==
    {MatchPairs(l, num_needed) :
        l \in UNION {MatchFill(s, p, num_needed) : s \in Shuffles(p)}}

\* ------------------------------------------------------ genetic operators
\* the lists [random.random() for _ in range(n)] with every draw in D
DrawVectors(n, D) == [1 .. n -> D]

\* mutate_one: position ix is kept when randos[ix] > p, flipped otherwise
MutateOne(individual, randos) ==
    LET bits == individual[1]
        p == mutate_probability
        new == [ix \in 1 .. Len(bits) |->
                   IF randos[ix] * p[2] > p[1] * DrawDen
                   THEN bits[ix] ELSE 1 - bits[ix]]
    IN <<new, Fitness(num_digits, new)>>

CrossoverUniform(a, b, randos) ==
    LET bits_1 == a[1]
        bits_2 == b[1]
        num_bits == Len(bits_1)
        new_bits_1 == [ix \in 1 .. num_bits |->
                          IF 2 * randos[ix] > DrawDen THEN bits_1[ix] ELSE bits_2[ix]]
        new_bits_2 == [ix \in 1 .. num_bits |->
                          IF 2 * randos[ix] >= DrawDen THEN bits_2[ix] ELSE bits_1[ix]]
    IN <<<<new_bits_1, Fitness(num_digits, new_bits_1)>>,
         <<new_bits_2, Fitness(num_digits, new_bits_2)>>>>

Crossover(a, b, randos) == CrossoverUniform(a, b, randos)

\* mutate(a, b) == (mutate_one(a), mutate_one(b)): what it can return for one
\* pair, every draw being in D
MutateResults(pair, D) ==
    LET n == Len(pair[1][1])
        m == Len(pair[2][1])
    IN {<<x, y>> : x \in {MutateOne(pair[1], r) : r \in DrawVectors(n, D)},
                   y \in {MutateOne(pair[2], r) : r \in DrawVectors(m, D)}}

\* what crossover can return for one pair, every draw being in D
CrossoverResults(pair, D) ==
    {Crossover(pair[1], pair[2], r) : r \in DrawVectors(Len(pair[1][1]), D)}

\* ------------------------------------------------------------------- breed
\* only the first child of every pair is kept
RECURSIVE ChainFirst(_)
ChainFirst(pairs) ==
    IF pairs = <<>> THEN <<>>
    ELSE <<Head(pairs)[1]>> \o ChainFirst(Tail(pairs))

\* itertools.chain.from_iterable over a list of pairs
RECURSIVE Chain(_)
Chain(pairs) ==
    IF pairs = <<>> THEN <<>>
    ELSE <<Head(pairs)[1], Head(pairs)[2]>> \o Chain(Tail(pairs))

\* [self.mutate(a, b) for a, b in pairs]: every list it can build
RECURSIVE MapMutate(_, _)
MapMutate(pairs, D) ==
    IF pairs = <<>> THEN {<<>>}
    ELSE {<<h>> \o t : h \in MutateResults(Head(pairs), D),
                       t \in MapMutate(Tail(pairs), D)}

\* [self.crossover(a, b) for a, b in pairs]: every list it can build
RECURSIVE MapCrossover(_, _)
MapCrossover(pairs, D) ==
    IF pairs = <<>> THEN {<<>>}
    ELSE {<<h>> \o t : h \in CrossoverResults(Head(pairs), D),
                       t \in MapCrossover(Tail(pairs), D)}

\* breed(ps), every draw made during the call being in D
Breed(ps, D) ==
    LET num_noop == NumNoop(Len(ps))
        num_mutations == NumMutations(Len(ps))
        num_xover == Len(ps) - num_noop - num_mutations
        noops == SubSeq(ps, 1, num_noop)
        ix1 == num_noop
        ix2 == ix1 + num_mutations
    IN {Chain(noops) \o Chain(mutations) \o Chain(xovers) :
           mutations \in MapMutate(SubSeq(ps, ix1 + 1, ix1 + num_mutations), D),
           xovers \in MapCrossover(SubSeq(ps, ix2 + 1, ix2 + num_xover), D)}

\* ------------------------------------------------------------ bookkeeping
\* the size test with 0 for 1
InvalidSizeNegative(ps) == ps < 0

\* population_size < 1
InvalidSize(ps) == ps < 1

\* the record overwritten by every generation's leader
NewMostFitAlways(bits, score) == <<Some(bits), score>>

\* if score > self.most_fit_score: the new <<most_fit, most_fit_score>>
NewMostFit(bits, score) ==
    IF score > most_fit_score THEN <<Some(bits), score>>
    ELSE <<most_fit, most_fit_score>>

\* the target test with > for >=
TargetReachedStrict(pop) ==
    target_fitness # None /\ pop[1][2] > target_fitness[1]

\* target_fitness is not None and population[0][1] >= target_fitness
TargetReached(pop) ==
    target_fitness # None /\ pop[1][2] >= target_fitness[1]

\* ---------------------------------------------------------------- __init__
\* the values of num_digits the experiments that are run are made with
NumDigitsChoices == {1, 2}

\* target_fitness: None, or num_digits as in the __main__ block
TargetChoices(nd) == {None, Some(nd)}

Init ==
    /\ pc = "new"
    /\ attrs = {}
    /\ error = None
    /\ init_calls = [make_individual |-> 0, fitness |-> 0]
    /\ num_digits = 0
    /\ population_size = 0
    /\ max_generations = 0
    /\ target_fitness = None
    /\ population = <<>>
    /\ generation = 0
    /\ mutate_probability = <<0, 1>>
    /\ most_fit = None
    /\ most_fit_score = NegInf
    /\ pool = <<>>
    /\ pool_ix = <<>>
    /\ parents = <<>>
    /\ leaders = <<>>
    /\ op = "idle"
    /\ op_args = <<>>
    /\ op_status = "idle"
    /\ op_result = <<>>
    /\ op_l = <<>>

\* Experiment(population_size = ps, max_generations = mg, target_fitness = tf,
\* num_digits = nd): self.num_digits = nd, then GAExperiment.__init__
Construct(nd, ps, mg, tf) ==
    /\ pc = "new"
    /\ num_digits' = nd
    /\ IF InvalidSize(ps)
       THEN /\ pc' = "raised"
            /\ error' = Some("ValueError")
            /\ UNCHANGED <<attrs, init_calls, population_size, max_generations,
                           target_fitness, population, generation,
                           mutate_probability, most_fit, most_fit_score, leaders>>
       ELSE \E pop \in [1 .. ps -> Genomes(nd)] :
            LET scored == [i \in 1 .. ps |-> <<pop[i], Fitness(nd, pop[i])>>]
                sorted == SortDesc(scored)
            IN /\ init_calls' = [make_individual |-> ps, fitness |-> ps]
               /\ population_size' = ps
               /\ max_generations' = mg
               /\ target_fitness' = tf
               /\ population' = sorted
               /\ generation' = 0
               /\ most_fit' = None
               /\ most_fit_score' = NegInf
               /\ IF sorted = <<>>
                  THEN \* self.population[0] raises before the last three fields are set
                       /\ pc' = "raised"
                       /\ error' = Some("IndexError")
                       /\ attrs' = {"population_size", "max_generations",
                                    "target_fitness", "population", "generation"}
                       /\ UNCHANGED <<mutate_probability, leaders>>
                  ELSE /\ pc' = "constructed"
                       /\ error' = None
                       /\ attrs' = AllAttrs
                       /\ mutate_probability' = <<1, Len(sorted[1][1])>>
                       /\ leaders' = <<sorted[1][2]>>
    /\ UNCHANGED <<pool, pool_ix, parents>>
    /\ UNCHANGED op_vars

\* --------------------------------------------------------------------- run
\* the caller calls run()
RunCall ==
    /\ pc = "constructed"
    /\ pc' = "while"
    /\ UNCHANGED <<attrs, error, init_calls, num_digits, population_size,
                   max_generations, target_fitness, population, generation,
                   mutate_probability, most_fit, most_fit_score, pool, pool_ix,
                   parents, leaders>>
    /\ UNCHANGED op_vars

\* the loop test fails: run() returns
RunReturn ==
    /\ pc = "while"
    /\ ~(generation < max_generations)
    /\ pc' = "done"
    /\ UNCHANGED <<attrs, error, init_calls, num_digits, population_size,
                   max_generations, target_fitness, population, generation,
                   mutate_probability, most_fit, most_fit_score, pool, pool_ix,
                   parents, leaders>>
    /\ UNCHANGED op_vars

\* the loop test holds: hook_pre_generation (a no-op), then sample_population
RunSample ==
    /\ pc = "while"
    /\ generation < max_generations
    /\ \E s \in {<<SamplePopulation(population, r), SampleRanks(Len(population), r, 0)>> :
                    r \in DrawVectors(Len(population), Draws)} :
          /\ pool' = s[1]
          /\ pool_ix' = s[2]
    /\ pc' = "match"
    /\ UNCHANGED <<attrs, error, init_calls, num_digits, population_size,
                   max_generations, target_fitness, population, generation,
                   mutate_probability, most_fit, most_fit_score, parents, leaders>>
    /\ UNCHANGED op_vars

\* match_parents(pool, ceil(population_size / 2)); never left when its loop
\* does not end.  run() does not read pool again: it is dead after the call
RunMatch ==
    /\ pc = "match"
    /\ LET num_parents_needed == CeilHalf(population_size)
       IN parents' \in MatchParents(pool, num_parents_needed)
    /\ pool' = <<>>
    /\ pool_ix' = <<>>
    /\ pc' = "breed"
    /\ UNCHANGED <<attrs, error, init_calls, num_digits, population_size,
                   max_generations, target_fitness, population, generation,
                   mutate_probability, most_fit, most_fit_score, leaders>>
    /\ UNCHANGED op_vars

\* breed, the sort, the bookkeeping, hook_post_generation (a no-op) and the
\* target test; parents is dead after it
RunBreed ==
    /\ pc = "breed"
    /\ \E sorted \in {SortDesc(children) : children \in Breed(parents, Draws)} :
          LET bits == sorted[1][1]
              score == sorted[1][2]
          IN /\ population' = sorted
             /\ generation' = generation + 1
             /\ most_fit' = NewMostFit(bits, score)[1]
             /\ most_fit_score' = NewMostFit(bits, score)[2]
             /\ leaders' = Append(leaders, score)
             /\ pc' = IF TargetReached(sorted) THEN "done" ELSE "while"
    /\ parents' = <<>>
    /\ UNCHANGED <<attrs, error, init_calls, num_digits, population_size,
                   max_generations, target_fitness, mutate_probability,
                   pool, pool_ix>>
    /\ UNCHANGED op_vars

Next ==
    \/ \E nd \in NumDigitsChoices, ps \in 0 .. MaxPop, mg \in 0 .. MaxGen :
          \E tf \in TargetChoices(nd) : Construct(nd, ps, mg, tf)
    \/ RunCall
    \/ RunReturn
    \/ RunSample
    \/ RunMatch
    \/ RunBreed

Spec == Init /\ [][Next]_vars


\* ------------------------------------------------- crossover_single_point
\* the names bound when line 184 is evaluated: the locals, then the globals
SinglePointLocals == {"self", "a", "b", "bits_1", "bits_2", "_", "ix",
                      "new_bits_1", "new_bits_2"}
ModuleGlobals == {"ABCMeta", "abstractmethod", "ceil", "floor", "inf", "chain",
                  "random", "GAExperiment"}

\* crossover_single_point(a, b) with random.randint(0, len(bits_1) - 1) = ix
CrossoverSinglePoint(a, b, ix) ==
    LET bits_1 == a[1]
        bits_2 == b[1]
        n == Len(bits_1)
        new_bits_1 == SubSeq(bits_1, 1, ix) \o SubSeq(bits_2, ix + 1, n)
        new_bits_2 == SubSeq(bits_2, 1, ix) \o SubSeq(bits_1, ix + 1, n)
    IN IF "new_bits" \in SinglePointLocals \cup ModuleGlobals
       THEN [status |-> "returned",
             value |-> <<<<new_bits_1, Fitness(num_digits, new_bits_1)>>,
                         <<new_bits_2, Fitness(num_digits, new_bits_2)>>>>]
       ELSE [status |-> "raised", value |-> "NameError"]

\* ------------------------------------------ the methods, called directly
MaxPool == 3           \* a pool given to match_parents has 0 .. MaxPool entries
MaxNeeded == 2         \* num_needed ranges over 0 .. MaxNeeded
MaxPairs == 10         \* a list given to breed has 0 .. MaxPairs pairs

\* an engine as __init__ leaves it, nothing called on it yet
OpInit ==
    /\ LET g == [i \in 1 .. NumDigits |-> 1]
       IN /\ population = <<<<g, Fitness(NumDigits, g)>>>>
          /\ leaders = <<Fitness(NumDigits, g)>>
    /\ pc = "constructed"
    /\ attrs = AllAttrs
    /\ error = None
    /\ init_calls = [make_individual |-> 1, fitness |-> 1]
    /\ num_digits = NumDigits
    /\ population_size = 1
    /\ max_generations = 0
    /\ target_fitness = None
    /\ generation = 0
    /\ mutate_probability = <<1, NumDigits>>
    /\ most_fit = None
    /\ most_fit_score = NegInf
    /\ pool = <<>>
    /\ pool_ix = <<>>
    /\ parents = <<>>
    /\ op = "idle"
    /\ op_args = <<>>
    /\ op_status = "idle"
    /\ op_result = <<>>
    /\ op_l = <<>>

CallCrossoverUniform ==
    /\ op = "idle"
    /\ \E a, b \in Individuals(num_digits), randos \in DrawVectors(num_digits, Draws) :
          /\ op_args' = [a |-> a, b |-> b, randos |-> randos]
          /\ op_result' = CrossoverUniform(a, b, randos)
    /\ op' = "crossover_uniform"
    /\ op_status' = "returned"
    /\ UNCHANGED <<op_l, engine_vars>>

CallCrossoverSinglePoint ==
    /\ op = "idle"
    /\ \E a, b \in Individuals(num_digits), ix \in 0 .. (num_digits - 1) :
          /\ op_args' = [a |-> a, b |-> b, ix |-> ix]
          /\ op_status' = CrossoverSinglePoint(a, b, ix).status
          /\ op_result' = CrossoverSinglePoint(a, b, ix).value
    /\ op' = "crossover_single_point"
    /\ UNCHANGED <<op_l, engine_vars>>

\* match_parents(p, num_needed) up to its loop test: l = pool[:]; shuffle(l)
CallMatchParents ==
    /\ op = "idle"
    /\ \E n \in 0 .. MaxPool, num_needed \in 0 .. MaxNeeded :
          \E p \in [1 .. n -> Individuals(num_digits)] :
             /\ op_args' = [pool |-> p, num_needed |-> num_needed]
             /\ op_l' \in Shuffles(p)
    /\ op' = "match_parents"
    /\ op_status' = "running"
    /\ UNCHANGED <<op_result, engine_vars>>

\* the loop test holds: one pass of the body
MatchParentsLoop ==
    /\ op = "match_parents"
    /\ op_status = "running"
    /\ Len(op_l) < 2 * op_args.num_needed
    /\ op_l' \in MatchStep(op_l, op_args.pool)
    /\ UNCHANGED <<op, op_args, op_status, op_result, engine_vars>>

\* the loop test fails: the pairs are returned
MatchParentsReturn ==
    /\ op = "match_parents"
    /\ op_status = "running"
    /\ ~(Len(op_l) < 2 * op_args.num_needed)
    /\ op_status' = "returned"
    /\ op_result' = MatchPairs(op_l, op_args.num_needed)
    /\ UNCHANGED <<op, op_args, op_l, engine_vars>>

\* breed(ps) for a list ps = (a, b), (b, a), (a, b), ..., every draw being d
CallBreed ==
    /\ op = "idle"
    /\ \E n \in 0 .. MaxPairs, a, b \in Individuals(num_digits), d \in Draws :
          LET ps == [i \in 1 .. n |-> IF i % 2 = 1 THEN <<a, b>> ELSE <<b, a>>]
          IN /\ op_args' = [parents |-> ps, d |-> d]
             /\ op_result' \in Breed(ps, {d})
    /\ op' = "breed"
    /\ op_status' = "returned"
    /\ UNCHANGED <<op_l, engine_vars>>

OpNext ==
    \/ CallCrossoverUniform
    \/ CallCrossoverSinglePoint
    \/ CallMatchParents
    \/ MatchParentsLoop
    \/ MatchParentsReturn
    \/ CallBreed

OpSpec == OpInit /\ [][OpNext]_vars

\* ================================================================ claims
Sorted(pop) == \A i \in 1 .. (Len(pop) - 1) : pop[i][2] >= pop[i + 1][2]

RECURSIVE SeqMax(_)
SeqMax(s) ==
    IF Len(s) = 1 THEN s[1]
    ELSE LET m == SeqMax(Tail(s)) IN IF s[1] > m THEN s[1] ELSE m

\* C1 (Sortedness): once __init__ has set it, and after every generation of
\* run(), population is non-increasing in stored score: for every adjacent
\* pair of positions the score at i is >= the score at i + 1.
C1_Sortedness == "population" \in attrs => Sorted(population)

\* a generation of four individuals with different scores has been installed
C1_Witness ==
    /\ generation >= 1
    /\ Len(population) = 4
    /\ population[1][2] > population[4][2]

\* C2 (Size bound): every population an iteration of run() installs has
\* exactly 2 * ceil(population_size / 2) individuals: population_size when
\* that is even, population_size + 1 when it is odd, in every generation.
C2_SizeBound ==
    generation >= 1 =>
        Len(population) = IF population_size % 2 = 0 THEN population_size
                          ELSE population_size + 1

\* the second generation of an odd-sized experiment is still one larger
C2_Witness ==
    /\ generation = 2
    /\ population_size = 3
    /\ Len(population) = 4

\* C3 as stated (Monotone best-ever): after each generation most_fit_score
\* equals the maximum leader score over every population held so far, the
\* generation-0 population included.
C3_BestEverWithGenerationZero ==
    generation >= 1 => most_fit_score = SeqMax(leaders)

\* C3 as amended: most_fit_score never decreases; before the first generation
\* it is -inf and most_fit is None; after each generation it is the maximum
\* leader score over the populations run() has installed (generation 0 left
\* out), and most_fit is a genome with that score.
C3_BestEverOfRun ==
    /\ [](IF generation = 0
          THEN most_fit_score = NegInf /\ most_fit = None
          ELSE /\ most_fit_score = SeqMax(Tail(leaders))
               /\ most_fit # None
               /\ Fitness(num_digits, most_fit[1]) = most_fit_score)
    /\ [][most_fit_score' >= most_fit_score]_vars

\* two generations in, the record is older than the current leader and the
\* generation-0 leader was better than anything run() produced
C3_Witness ==
    /\ generation = 2
    /\ leaders[3] < most_fit_score
    /\ leaders[1] > most_fit_score

\* steps run() has left at most: three per generation still allowed
RunRank ==
    3 * (max_generations - generation)
    + (IF pc = "while" THEN 3 ELSE IF pc = "match" THEN 2
       ELSE IF pc = "breed" THEN 1 ELSE 0)

C5_Conservation ==
    (op = "crossover_uniform" /\ op_status = "returned") =>
        \A i \in 1 .. Len(op_args.a[1]) :
            {op_result[1][1][i], op_result[2][1][i]}
                = {op_args.a[1][i], op_args.b[1][i]}

\* C6 (Empty-pool guard): match_parents called with an empty pool and
\* num_needed > 0 fails with InsufficientPoolError instead of looping for
\* ever: it never returns, and while it runs it is not at a loop test that
\* holds before a pass that leaves l as it is; with num_needed = 0 it returns
\* an empty list of pairs.
C6_EmptyPoolGuard ==
    (op = "match_parents" /\ op_args.pool = <<>>) =>
        IF op_args.num_needed > 0
        THEN \/ op_status = "raised" /\ op_result = "InsufficientPoolError"
             \/ /\ op_status = "running"
                /\ ~(/\ Len(op_l) < 2 * op_args.num_needed
                     /\ MatchStep(op_l, op_args.pool) = {op_l})
        ELSE op_status = "returned" => op_result = <<>>

\* C7 (Configuration validation): __init__ with population_size < 1 fails
\* with ValueError and leaves nothing behind (no attribute set, no call to
\* make_individual or fitness); with population_size >= 1 it succeeds, and
\* with population_size = 1 the population has one individual and generation
\* is 0.
C7_ConfigValidation ==
    /\ [](/\ pc = "raised" => error = Some("ValueError")
          /\ error # None =>
                /\ attrs = {}
                /\ init_calls = [make_individual |-> 0, fitness |-> 0]
                /\ population = <<>>)
    /\ [][pc = "new" =>
            \A nd \in NumDigitsChoices, ps \in 0 .. MaxPop, mg \in 0 .. MaxGen :
                \A tf \in TargetChoices(nd) :
                    Construct(nd, ps, mg, tf) =>
                        /\ ps < 1 <=> pc' = "raised"
                        /\ ps >= 1 <=> pc' = "constructed"
                        /\ ps = 1 => Len(population') = 1 /\ generation' = 0]_vars

\* a construction has been refused
C7_Witness == pc = "raised" /\ error = Some("ValueError") /\ attrs = {}

\* C8 (Selection keeps the leader): the pool sample_population returns holds
\* the rank-0 individual first, so it is never empty; it lists population
\* positions in increasing rank order, each at most once (size 1 .. N).
C8_LeaderSelected ==
    pc = "match" =>
        /\ Len(pool) >= 1
        /\ Len(pool) <= Len(population)
        /\ Len(pool_ix) = Len(pool)
        /\ pool_ix[1] = 0
        /\ pool[1] = population[1]
        /\ \A j \in 1 .. Len(pool) :
              /\ pool_ix[j] \in 0 .. (Len(population) - 1)
              /\ pool[j] = population[pool_ix[j] + 1]
              /\ j > 1 => pool_ix[j - 1] < pool_ix[j]

\* a pool that kept the leader and dropped somebody else
C8_Witness ==
    /\ pc = "match"
    /\ Len(population) = 4
    /\ pool_ix = <<0, 2>>

\* the k with k <= x / 10 < k + 1
FloorTenth(x) == CHOOSE k \in 0 .. x : 10 * k <= x /\ x < 10 * (k + 1)

\* C9 (Breeding partition): breed returns 2 children per pair, in the order
\* of the pairs; the first floor(0.1 n) pairs come back unchanged, the next
\* floor(0.6 n) pairs are what mutate returns for them, and every remaining
\* pair is what crossover returns for it.
C9_BreedPartition ==
    (op = "breed" /\ op_status = "returned") =>
        LET ps == op_args.parents
            n == Len(ps)
            D == {op_args.d}
            c == op_result
            k1 == FloorTenth(n)
            k2 == FloorTenth(6 * n)
        IN /\ Len(c) = 2 * n
           /\ \A i \in 1 .. n :
                 LET pair == <<c[2 * i - 1], c[2 * i]>>
                 IN IF i <= k1 THEN pair = ps[i]
                    ELSE IF i <= k1 + k2 THEN pair \in MutateResults(ps[i], D)
                    ELSE pair \in CrossoverResults(ps[i], D)

\* ten pairs of two different parents, every draw 0: one pair is carried
\* over, six are mutated (every bit flipped), three are crossed (swapped)
C9_Witness ==
    /\ op = "breed"
    /\ op_status = "returned"
    /\ Len(op_args.parents) = 10
    /\ op_args.d = 0
    /\ op_args.parents[1][1] # op_args.parents[1][2]
    /\ <<op_result[1], op_result[2]>> = op_args.parents[1]
    /\ op_result[3] # op_args.parents[2][1]
    /\ <<op_result[19], op_result[20]>> = <<op_args.parents[10][2], op_args.parents[10][1]>>

\* C10 (Single-point crossover): crossover_single_point returns, without an
\* error, child 1 = A[0..ix) + B[ix..L) and child 2 = B[0..ix) + A[ix..L),
\* each with the fitness of its own genome.
C10_SinglePoint ==
    op = "crossover_single_point" =>
        LET a == op_args.a[1]
            b == op_args.b[1]
            ix == op_args.ix
            c1 == [i \in 1 .. Len(a) |-> IF i <= ix THEN a[i] ELSE b[i]]
            c2 == [i \in 1 .. Len(a) |-> IF i <= ix THEN b[i] ELSE a[i]]
        IN /\ op_status = "returned"
           /\ op_result = <<<<c1, Fitness(num_digits, c1)>>,
                            <<c2, Fitness(num_digits, c2)>>>>

====
